---- MODULE Spec2Model ----
(***************************************************************************)
(* Model of sync_folders.py: the one-way folder mirror (sync_folders) and  *)
(* its periodic driver (main).  The filesystem is a map from absolute      *)
(* paths (sequences of name components) to entries; a pass of sync_folders *)
(* is a sequence of steps, one per visited directory or file.              *)
(***************************************************************************)
EXTENDS Integers, Sequences, FiniteSets, TLC

\* Number of passes of the driver loop that are explored.
MaxPasses == 2
\* Number of distinct file contents.
NumContents == 2

\* resolve_path(args.source) and resolve_path(args.replica).
source == <<"s">>
replica == <<"r">>

\* Entry names.  "s" and "r" also occur below the roots, so a path can
\* contain its own root's name (or the other root's) more than once.
Names == {"s", "b", "r"}
RelPaths == {<<>>, <<"s">>, <<"b">>, <<"s", "r">>}
SourcePaths == {source \o q : q \in RelPaths}
ReplicaPaths == {replica \o q : q \in RelPaths}
Paths == SourcePaths \cup ReplicaPaths

Contents == 1..NumContents
NoEntry == [kind |-> "none", data |-> 0]
DirEntry == [kind |-> "dir", data |-> 0]
FileEntry(c) == [kind |-> "file", data |-> c]
Entries == {NoEntry, DirEntry} \cup {FileEntry(c) : c \in Contents}

\* fs      the filesystem: the entry at each absolute path
\* mainpc  the statement main is at; pc, todo: the loop sync_folders is in
\*         and the iterations it has left
\* log     the events handed to the logger; exc: the exception that escaped
\* active  the number of calls of sync_folders in progress; passes: calls made
\* snap    the filesystem when the current (latest) call began; prev: when
\*         the call before it began; mark: the length of log at that moment
\* edited  a source file was rewritten during the current sleep
VARIABLES fs, mainpc, pc, todo, log, exc, active, passes, snap, prev, mark, edited

vars == <<fs, mainpc, pc, todo, log, exc, active, passes, snap, prev, mark, edited>>

----------------------------------------------------------------------------
(* Paths and the filesystem primitives the program calls. *)

Parent(p) == SubSeq(p, 1, Len(p) - 1)
Basename(p) == p[Len(p)]
\* os.path.join(dirpath, filename)
Join(d, n) == d \o <<n>>

EntryAt(f, p) == IF p \in DOMAIN f THEN f[p] ELSE NoEntry
\* os.path.exists
Exists(f, p) == p = <<>> \/ EntryAt(f, p).kind # "none"
IsDir(f, p) == p = <<>> \/ EntryAt(f, p).kind = "dir"
IsFile(f, p) == EntryAt(f, p).kind = "file"

\* A tree is well formed when every entry lies in a directory.
WellFormed(f) == \A p \in DOMAIN f : f[p].kind # "none" => IsDir(f, Parent(p))

Min(S) == CHOOSE x \in S : \A y \in S : x <= y

OccursAt(str, old, i) ==
    /\ i + Len(old) - 1 <= Len(str)
    /\ SubSeq(str, i, i + Len(old) - 1) = old

\* str.replace(old, new, 1): the first occurrence only.
Replace1(str, old, new) ==
    LET idx == {i \in 1..Len(str) : OccursAt(str, old, i)}
    IN  IF idx = {} THEN str
        ELSE LET i == Min(idx)
             IN  SubSeq(str, 1, i - 1) \o new \o SubSeq(str, i + Len(old), Len(str))

Ok(f) == [ok |-> TRUE, err |-> "none", fs |-> f]
Fail(e, f) == [ok |-> FALSE, err |-> e, fs |-> f]

\* os.mkdir
mkdir(f, p) ==
    IF Exists(f, p) THEN Fail("FileExistsError", f)
    ELSE IF ~Exists(f, Parent(p)) THEN Fail("FileNotFoundError", f)
    ELSE IF ~IsDir(f, Parent(p)) \/ p \notin DOMAIN f THEN Fail("NotADirectoryError", f)
    ELSE Ok([f EXCEPT ![p] = DirEntry])

\* os.makedirs(name): missing ancestors first, then the leaf.
RECURSIVE makedirs(_, _)
makedirs(f, p) ==
    LET head == Parent(p)
        r == IF head # <<>> /\ ~Exists(f, head) THEN makedirs(f, head) ELSE Ok(f)
    IN  IF r.ok THEN mkdir(r.fs, p) ELSE r

\* hashlib.md5 of the bytes: one digest per content, no collisions.
hexdigest(c) == <<"md5", c>>

\* calculate_md5(file_path): open() fails on a missing path or a directory.
calculate_md5(f, p) ==
    IF ~Exists(f, p) THEN [ok |-> FALSE, err |-> "FileNotFoundError", digest |-> <<>>]
    ELSE IF IsDir(f, p) THEN [ok |-> FALSE, err |-> "IsADirectoryError", digest |-> <<>>]
    ELSE [ok |-> TRUE, err |-> "none", digest |-> hexdigest(f[p].data)]

\* shutil.copy2(src, dst): a directory dst means dst/basename(src).
copy2(f, src, dst) ==
    LET target == IF IsDir(f, dst) THEN Join(dst, Basename(src)) ELSE dst
    IN  IF ~Exists(f, src) THEN Fail("FileNotFoundError", f)
        ELSE IF IsDir(f, src) \/ IsDir(f, target) THEN Fail("IsADirectoryError", f)
        ELSE IF ~Exists(f, Parent(target)) THEN Fail("FileNotFoundError", f)
        ELSE IF ~IsDir(f, Parent(target)) \/ target \notin DOMAIN f
             THEN Fail("NotADirectoryError", f)
        ELSE Ok([f EXCEPT ![target] = f[src]])

\* os.remove
remove(f, p) ==
    IF ~Exists(f, p) THEN Fail("FileNotFoundError", f)
    ELSE IF IsDir(f, p) THEN Fail("IsADirectoryError", f)
    ELSE Ok([f EXCEPT ![p] = NoEntry])

----------------------------------------------------------------------------
(* os.walk *)

\* os.scandir(d): the names present in d, in the enumeration order perm.
scandir(f, d, perm) == SelectSeq(perm, LAMBDA n : Join(d, n) \in DOMAIN f /\ Exists(f, Join(d, n)))

RECURSIVE walk(_, _, _, _)
RECURSIVE walkEach(_, _, _, _, _)

\* The walks of the subdirectories dirs of top, one after the other.
walkEach(f, top, dirs, topdown, perm) ==
    IF dirs = <<>> THEN <<>>
    ELSE walk(f, Join(top, Head(dirs)), topdown, perm)
             \o walkEach(f, top, Tail(dirs), topdown, perm)

\* os.walk(top, topdown): the (dirpath, dirnames, filenames) triples it
\* yields.  A top that cannot be listed yields nothing: onerror is None, so
\* the error of scandir is swallowed.
walk(f, top, topdown, perm) ==
    IF ~IsDir(f, top) THEN <<>>
    ELSE LET ents == scandir(f, top, perm)
             dirs == SelectSeq(ents, LAMBDA n : IsDir(f, Join(top, n)))
             nondirs == SelectSeq(ents, LAMBDA n : ~IsDir(f, Join(top, n)))
             here == <<[dirpath |-> top, dirnames |-> dirs, filenames |-> nondirs]>>
             below == walkEach(f, top, dirs, topdown, perm)
         IN  IF topdown THEN here \o below ELSE below \o here

Perms == {q \in [1..Cardinality(Names) -> Names] : \A n \in Names : \E i \in DOMAIN q : q[i] = n}

DirItem(d) == [kind |-> "dir", dirpath |-> d, filename |-> ""]
FileItem(d, n) == [kind |-> "file", dirpath |-> d, filename |-> n]

RECURSIVE FileItems(_, _)
FileItems(d, names) ==
    IF names = <<>> THEN <<>> ELSE <<FileItem(d, Head(names))>> \o FileItems(d, Tail(names))

\* The iterations of the first loop: each directory, then the files in it.
RECURSIVE ItemsA(_)
ItemsA(w) ==
    IF w = <<>> THEN <<>>
    ELSE <<DirItem(Head(w).dirpath)>> \o FileItems(Head(w).dirpath, Head(w).filenames)
             \o ItemsA(Tail(w))

\* The iterations of the second loop: the files of each directory.
RECURSIVE ItemsB(_)
ItemsB(w) ==
    IF w = <<>> THEN <<>>
    ELSE FileItems(Head(w).dirpath, Head(w).filenames) \o ItemsB(Tail(w))

----------------------------------------------------------------------------
(* Logging *)

Event(msg, args) == [msg |-> msg, args |-> args]

\* Variant: the logger's threshold is above INFO, so info events are dropped.
setLevelWarning == "WARNING"

\* logger.setLevel(logging.INFO)
setLevel == "INFO"

\* logger.info(...)
info(l, msg, args) == IF setLevel \in {"DEBUG", "INFO"} THEN Append(l, Event(msg, args)) ELSE l

----------------------------------------------------------------------------
(* sync_folders *)

\* dirpath.replace(source, replica, 1)
ReplicaPathOf(dirpath) == Replace1(dirpath, source, replica)
\* replica_file.replace(replica, source, 1)
SourceFileOf(replica_file) == Replace1(replica_file, replica, source)

\* Variant: the fingerprints are never compared; only a missing replica file
\* is copied.
NeedsCopyExistsOnly(f, source_file, replica_file) ==
    [ok |-> TRUE, err |-> "none", need |-> ~Exists(f, replica_file)]

\* Variant: the comparison is == where it should be !=.
NeedsCopyInverted(f, source_file, replica_file) ==
    IF ~Exists(f, replica_file) THEN [ok |-> TRUE, err |-> "none", need |-> TRUE]
    ELSE LET a == calculate_md5(f, source_file)
             b == calculate_md5(f, replica_file)
         IN  IF ~a.ok THEN [ok |-> FALSE, err |-> a.err, need |-> FALSE]
             ELSE IF ~b.ok THEN [ok |-> FALSE, err |-> b.err, need |-> FALSE]
             ELSE [ok |-> TRUE, err |-> "none", need |-> a.digest = b.digest]

\* Variant: every visited file is copied, whatever the replica holds.
NeedsCopyAlways(f, source_file, replica_file) ==
    [ok |-> TRUE, err |-> "none", need |-> TRUE]

\* not os.path.exists(replica_file)
\*     or calculate_md5(source_file) != calculate_md5(replica_file)
NeedsCopy(f, source_file, replica_file) ==
    IF ~Exists(f, replica_file) THEN [ok |-> TRUE, err |-> "none", need |-> TRUE]
    ELSE LET a == calculate_md5(f, source_file)
             b == calculate_md5(f, replica_file)
         IN  IF ~a.ok THEN [ok |-> FALSE, err |-> a.err, need |-> FALSE]
             ELSE IF ~b.ok THEN [ok |-> FALSE, err |-> b.err, need |-> FALSE]
             ELSE [ok |-> TRUE, err |-> "none", need |-> a.digest # b.digest]

\* Variant: the arguments of the copy are swapped.
CopyFileSwapped(f, source_file, replica_file) == copy2(f, replica_file, source_file)

\* shutil.copy2(source_file, replica_file)
CopyFile(f, source_file, replica_file) == copy2(f, source_file, replica_file)

\* The loop goes on to its next iteration.
Continue ==
    /\ todo' = Tail(todo)
    /\ UNCHANGED <<mainpc, pc, exc, active>>

\* An exception leaves sync_folders, and main, which catches nothing: the
\* process ends.
Raise(e) ==
    /\ exc' = e
    /\ pc' = "idle"
    /\ todo' = <<>>
    /\ active' = active - 1
    /\ mainpc' = "terminated"

\* Variant: a driver that starts a pass on every tick, also while the
\* previous one is still running.
CallEnabledOverlapping == mainpc \in {"call", "sync"}

\* The call sync_folders(args.source, args.replica, logger) starts only
\* from the call statement of the loop.
CallEnabled == mainpc = "call"

\* Entry of sync_folders, up to os.walk(source).
SyncCall ==
    /\ CallEnabled
    /\ active' = active + 1
    /\ passes' = passes + 1
    /\ mainpc' = "sync"
    /\ pc' = "A"
    /\ \E perm \in Perms : todo' = ItemsA(walk(fs, source, TRUE, perm))
    /\ snap' = fs
    /\ prev' = snap
    /\ mark' = Len(log)
    /\ UNCHANGED <<fs, log, exc, edited>>

\* One directory of the first loop: create its mirror when it is missing.
SyncDir ==
    /\ pc = "A" /\ todo # <<>> /\ Head(todo).kind = "dir"
    /\ LET replica_path == ReplicaPathOf(Head(todo).dirpath)
       IN  IF ~Exists(fs, replica_path)
           THEN LET r == makedirs(fs, replica_path)
                IN  /\ fs' = r.fs
                    /\ IF r.ok
                       THEN /\ log' = info(log, "Created directory", <<replica_path>>)
                            /\ Continue
                       ELSE log' = log /\ Raise(r.err)
           ELSE UNCHANGED <<fs, log>> /\ Continue
    /\ UNCHANGED <<passes, snap, prev, mark, edited>>

\* One file of the first loop: copy it when the replica lacks it or differs.
SyncFile ==
    /\ pc = "A" /\ todo # <<>> /\ Head(todo).kind = "file"
    /\ LET replica_path == ReplicaPathOf(Head(todo).dirpath)
           source_file == Join(Head(todo).dirpath, Head(todo).filename)
           replica_file == Join(replica_path, Head(todo).filename)
           d == NeedsCopy(fs, source_file, replica_file)
       IN  IF ~d.ok THEN UNCHANGED <<fs, log>> /\ Raise(d.err)
           ELSE IF d.need
           THEN LET r == CopyFile(fs, source_file, replica_file)
                IN  /\ fs' = r.fs
                    /\ IF r.ok
                       THEN /\ log' = info(log, "Copied file", <<source_file, replica_file>>)
                            /\ Continue
                       ELSE log' = log /\ Raise(r.err)
           ELSE UNCHANGED <<fs, log>> /\ Continue
    /\ UNCHANGED <<passes, snap, prev, mark, edited>>

\* The first loop is over: os.walk(replica, topdown=False).
StartPrune ==
    /\ pc = "A" /\ todo = <<>>
    /\ pc' = "B"
    /\ \E perm \in Perms : todo' = ItemsB(walk(fs, replica, FALSE, perm))
    /\ UNCHANGED <<fs, mainpc, log, exc, active, passes, snap, prev, mark, edited>>

\* One file of the second loop: remove it when the source has no such path.
PruneFile ==
    /\ pc = "B" /\ todo # <<>>
    /\ LET replica_file == Join(Head(todo).dirpath, Head(todo).filename)
           source_file == SourceFileOf(replica_file)
       IN  IF ~Exists(fs, source_file)
           THEN LET r == remove(fs, replica_file)
                IN  /\ fs' = r.fs
                    /\ IF r.ok
                       THEN /\ log' = info(log, "Removed file", <<replica_file>>)
                            /\ Continue
                       ELSE log' = log /\ Raise(r.err)
           ELSE UNCHANGED <<fs, log>> /\ Continue
    /\ UNCHANGED <<passes, snap, prev, mark, edited>>

\* sync_folders returns to main.
SyncReturn ==
    /\ pc = "B" /\ todo = <<>>
    /\ pc' = "idle"
    /\ active' = active - 1
    /\ mainpc' = "complete"
    /\ UNCHANGED <<fs, todo, log, exc, passes, snap, prev, mark, edited>>

----------------------------------------------------------------------------
(* main *)

\* logger.info('Starting synchronization')
MainLogStart ==
    /\ mainpc = "start" /\ passes < MaxPasses
    /\ log' = info(log, "Starting synchronization", <<>>)
    /\ mainpc' = "call"
    /\ UNCHANGED <<fs, pc, todo, exc, active, passes, snap, prev, mark, edited>>

\* logger.info('Synchronization complete. Sleeping...')
MainLogComplete ==
    /\ mainpc = "complete"
    /\ log' = info(log, "Synchronization complete. Sleeping...", <<>>)
    /\ mainpc' = "sleep"
    /\ edited' = FALSE
    /\ UNCHANGED <<fs, pc, todo, exc, active, passes, snap, prev, mark>>

\* time.sleep(args.interval) returns and the loop starts over.
Sleep ==
    /\ mainpc = "sleep"
    /\ mainpc' = "start"
    /\ UNCHANGED <<fs, pc, todo, log, exc, active, passes, snap, prev, mark, edited>>

\* The user rewrites a source file while the driver sleeps.
EditSource ==
    /\ mainpc = "sleep" /\ ~edited /\ passes < MaxPasses
    /\ \E p \in SourcePaths, c \in Contents :
          /\ IsFile(fs, p) /\ fs[p].data # c
          /\ fs' = [fs EXCEPT ![p] = FileEntry(c)]
    /\ edited' = TRUE
    /\ UNCHANGED <<mainpc, pc, todo, log, exc, active, passes, snap, prev, mark>>

----------------------------------------------------------------------------

\* Both roots are directories or missing; the trees below them are arbitrary.
Init ==
    /\ fs \in {f \in [Paths -> Entries] :
                  /\ WellFormed(f)
                  /\ f[source].kind # "file" /\ f[replica].kind # "file"}
    /\ mainpc = "start"
    /\ pc = "idle"
    /\ todo = <<>>
    /\ log = <<>>
    /\ exc = "none"
    /\ active = 0
    /\ passes = 0
    /\ snap = fs
    /\ prev = fs
    /\ mark = 0
    /\ edited = FALSE

Next ==
    \/ MainLogStart
    \/ SyncCall
    \/ SyncDir
    \/ SyncFile
    \/ StartPrune
    \/ PruneFile
    \/ SyncReturn
    \/ MainLogComplete
    \/ Sleep
    \/ EditSource

Spec == Init /\ [][Next]_vars

\* Another process deletes the source file the first loop is about to
\* handle: the file has been enumerated by os.walk and is gone before
\* sync_folders looks at it.
VanishSource ==
    /\ pc = "A" /\ todo # <<>> /\ Head(todo).kind = "file"
    /\ LET source_file == Join(Head(todo).dirpath, Head(todo).filename)
       IN  /\ IsFile(fs, source_file)
           /\ fs' = [fs EXCEPT ![source_file] = NoEntry]
    /\ UNCHANGED <<mainpc, pc, todo, log, exc, active, passes, snap, prev, mark, edited>>

\* The trees sync_folders is defined on: no path is a directory in one
\* tree and a file in the other.
InitRace == Init /\ ~(\E q \in RelPaths :
                        \/ IsDir(fs, source \o q) /\ IsFile(fs, replica \o q)
                        \/ IsFile(fs, source \o q) /\ IsDir(fs, replica \o q))

NextRace == Next \/ VanishSource

\* The program with a source that changes under a running pass.
SpecRace == InitRace /\ [][NextRace]_vars

----------------------------------------------------------------------------
(* Properties *)

MutationMsgs == {"Created directory", "Copied file", "Removed file"}

\* The positions in log of the events of the latest call.
PassEvents == (mark + 1)..Len(log)
\* Those that report the change msg at path p.
EventsAt(msg, p) == {i \in PassEvents : log[i].msg = msg /\ log[i].args[Len(log[i].args)] = p}
NoMutationEvent == \A i \in PassEvents : log[i].msg \notin MutationMsgs

\* The latest call has ended, by a return or by an exception.
PassEnded == passes >= 1 /\ mainpc \in {"complete", "terminated"}
PassReturned == passes >= 1 /\ mainpc = "complete"

\* Every source file has an identical replica file and every source
\* directory a replica directory.
Converged ==
    \A q \in RelPaths :
        /\ IsFile(fs, source \o q) => fs[replica \o q] = fs[source \o q]
        /\ IsDir(fs, source \o q) => IsDir(fs, replica \o q)

\* Some path is a directory in one tree and a file in the other.
TypeConflict(f) ==
    \E q \in RelPaths :
        \/ IsDir(f, source \o q) /\ IsFile(f, replica \o q)
        \/ IsFile(f, source \o q) /\ IsDir(f, replica \o q)

\* C1 as stated: after a call of sync_folders that returned, the replica
\* mirrors every file and directory of the source, whatever it held before.
C1_ConvergenceAnyReplica == PassReturned => Converged

\* C1 amended: when no path is a directory in one tree and a file in the
\* other at the time of the call, the call ends without an exception and the
\* replica then mirrors every file and directory of the source.
C1_ConvergenceWithoutTypeConflict ==
    (PassEnded /\ ~TypeConflict(snap)) => (mainpc = "complete" /\ Converged)

\* C1 witness: a call that had to create the replica root, a subdirectory
\* and a file in it has returned.
C1_Witness ==
    /\ PassReturned
    /\ ~Exists(snap, replica)
    /\ IsFile(fs, <<"s", "s", "r">>)
    /\ IsFile(fs, <<"s", "b">>)

\* C2 as stated: after a call that returned, every file and every directory
\* the replica held at a path the source lacks is gone from the replica.
C2_PruningFilesAndDirectories ==
    PassReturned =>
        \A q \in RelPaths \ {<<>>} :
            (Exists(snap, replica \o q) /\ ~Exists(snap, source \o q))
                => ~Exists(fs, replica \o q)

\* The source is the same at the latest call as at the call before it.
SourceUnchangedBetweenCalls == \A p \in SourcePaths : snap[p] = prev[p]

\* C3: a second (or later) call that follows a call with no change to the
\* source in between creates, copies and removes nothing and logs no
\* 'Created directory', 'Copied file' or 'Removed file' event.
C3_Idempotence ==
    (passes >= 2 /\ SourceUnchangedBetweenCalls)
        => (NoMutationEvent /\ \A p \in ReplicaPaths : fs[p] = snap[p])

\* C3 witness: a second call has returned after a first call that changed
\* the replica, the source being the same at both.
C3_Witness ==
    /\ passes = 2 /\ mainpc = "complete"
    /\ SourceUnchangedBetweenCalls
    /\ \E p \in ReplicaPaths : prev[p] # snap[p]
    /\ \E i \in 1..mark : log[i].msg = "Copied file"
    /\ \E i \in 1..mark : log[i].msg = "Removed file"

\* C4 as stated: no exception escapes sync_folders, also when a source file
\* vanishes between its enumeration and its copy.
C4_NoExceptionEscapes == exc = "none"

\* C5 as stated: when the source root cannot be enumerated at the call, the
\* run is aborted before the pruning loop does anything: no replica file is
\* deleted and no 'Removed file' event is logged.
C5_UnreadableSourceAborts ==
    (passes >= 1 /\ ~IsDir(snap, source))
        => (NoMutationEvent /\ \A p \in ReplicaPaths : IsFile(snap, p) => fs[p] = snap[p])

\* The first loop has dealt with the source file at sf.
Visited(sf) ==
    /\ passes >= 1
    /\ \/ pc = "B"
       \/ mainpc = "complete"
       \/ /\ pc = "A"
          /\ \A i \in DOMAIN todo : todo[i] # FileItem(Parent(sf), Basename(sf))

\* C6: a source file the first loop has dealt with was copied, with one
\* 'Copied file' event, exactly when the replica had no file at the mirrored
\* path or one with other bytes; otherwise the replica file is untouched and
\* no event names it.  This holds of every call, so a source file rewritten
\* between two calls is copied again by the second.
C6_CopyDecision ==
    \A q \in RelPaths :
        LET sf == source \o q
            rf == replica \o q
            differs == ~Exists(snap, rf) \/ snap[rf] # snap[sf]
        IN  (IsFile(snap, sf) /\ Visited(sf)) =>
                IF differs
                THEN Cardinality(EventsAt("Copied file", rf)) = 1 /\ fs[rf] = snap[sf]
                ELSE EventsAt("Copied file", rf) = {} /\ fs[rf] = snap[rf]

\* C6 witness: a second call has returned; it recopied a file rewritten in
\* the source since the first call and left an identical file alone.
C6_Witness ==
    /\ passes = 2 /\ mainpc = "complete"
    /\ \E p \in SourcePaths : IsFile(prev, p) /\ IsFile(snap, p) /\ prev[p] # snap[p]
    /\ \E i \in PassEvents : log[i].msg = "Copied file"
    /\ \E q \in RelPaths : IsFile(snap, source \o q) /\ snap[replica \o q] = snap[source \o q]

\* C7 as stated: the driver loop never terminates because of a sync error:
\* main never ends by an exception of a pass.
C7_LoopSurvivesSyncError == mainpc # "terminated"

\* C8: at most one call of sync_folders is in progress at any time, and one
\* is in progress only while main is at its call statement.
C8_OnePassAtATime == active <= 1 /\ (active = 1 <=> mainpc = "sync")

\* C8 witness: the second pass is running, the first having returned.
C8_Witness == active = 1 /\ passes = 2 /\ pc = "B" /\ todo # <<>>

\* C9: from the start of a call to its end, every path under the source
\* root holds what it held when the call began.
C9_SourceReadOnly ==
    (passes >= 1 /\ mainpc \in {"sync", "complete", "terminated"})
        => \A p \in SourcePaths : fs[p] = snap[p]

\* C9 witness: a call that created a directory, copied a file and removed a
\* file in the replica has returned.
C9_Witness ==
    /\ PassReturned
    /\ \E i \in PassEvents : log[i].msg = "Created directory"
    /\ \E i \in PassEvents : log[i].msg = "Copied file"
    /\ \E i \in PassEvents : log[i].msg = "Removed file"

\* C10: during and after a call, a replica path differs from what it held
\* when the call began exactly when one event of the call names it, and that
\* event tells the change: 'Created directory' for a directory that was
\* missing, 'Copied file' for a file with new bytes, 'Removed file' for a
\* file that is gone.  No event of the call names any other path.
C10_OneEventPerChange ==
    /\ \A p \in ReplicaPaths :
        LET created == EventsAt("Created directory", p)
            copied == EventsAt("Copied file", p)
            removed == EventsAt("Removed file", p)
        IN  /\ Cardinality(created) + Cardinality(copied) + Cardinality(removed)
                  = IF fs[p] # snap[p] THEN 1 ELSE 0
            /\ created # {} => ~Exists(snap, p) /\ IsDir(fs, p)
            /\ copied # {} => IsFile(fs, p) /\ fs[p] = snap[SourceFileOf(p)]
            /\ removed # {} => IsFile(snap, p) /\ ~Exists(fs, p)
    /\ \A i \in PassEvents :
        log[i].msg \in MutationMsgs => log[i].args[Len(log[i].args)] \in ReplicaPaths

\* C10 witness: the source held one directory with one file, the replica
\* root was empty; the call has returned and logged one 'Created directory'
\* and one 'Copied file' event.
C10_Witness ==
    /\ passes = 1 /\ mainpc = "complete"
    /\ \A p \in ReplicaPaths \ {replica} : ~Exists(snap, p)
    /\ IsDir(snap, replica)
    /\ IsFile(snap, <<"s", "s", "r">>) /\ ~Exists(snap, <<"s", "b">>)
    /\ Cardinality({i \in PassEvents : log[i].msg = "Created directory"}) = 1
    /\ Cardinality({i \in PassEvents : log[i].msg = "Copied file"}) = 1
    /\ Cardinality({i \in PassEvents : log[i].msg \in MutationMsgs}) = 2

====
